---- MODULE Spec2Model ----
(***************************************************************************)
(* CommentPlugin (src/td/converter/plugins/CommentPlugin.ts): the handler  *)
(* that parses javadoc comments and attaches Comment instances to the      *)
(* reflections of a project.                                                *)
(*                                                                          *)
(* Strings are sequences of characters, one element for each UTF-16 code    *)
(* unit of the source's string, so that the regular expressions, substr,    *)
(* trim and toLowerCase of the source are computed character by character.  *)
(* An ASCII character is the one-character string of it; a character        *)
(* outside ASCII is the name of its code point, "U+" and four hexadecimal   *)
(* digits in upper case: "U+00E9" is e with acute, "U+2003" the em space.   *)
(* The module holds ASCII only, and reads the same under every charset.     *)
(***************************************************************************)
EXTENDS Integers, Sequences, FiniteSets, TLC

VARIABLES
    phase,        \* where the converter's dispatch stands: "constructed", "converting", "resolving"
    comments,     \* CommentPlugin.comments: reflection id -> IModuleComment
    comment,      \* reflection.comment of every reflection: <<>> (none) or <<Comment>>
    flags,        \* the visibility flags set on every reflection
    paramComment, \* parameter.comment of every parameter of every signature
    recorded,     \* history: the raw texts handed to storeModuleComment since onBegin, per id
    stale,        \* history: the ids that had a candidate when the last onBegin ran
    resolved,     \* the reflections EVENT_RESOLVE was dispatched for in this pass
    nEvents,      \* the number of raw comments the handlers were given in this pass
    created,      \* the type parameters EVENT_CREATE_TYPE_PARAMETER was dispatched for
    source,       \* a call of parseComment: its argument text
    into,         \* a call of parseComment: its argument comment, <<>> when not supplied
    pending,      \* a call of parseComment: the lines forEach has yet to visit
    parser        \* a call of parseComment: [comment, currentTag (one is open), shortText]

vars == <<phase, comments, comment, flags, paramComment, recorded, stale, resolved, nEvents,
          created, source, into, pending, parser>>

\* the variables of a call of parseComment followed line by line
parseVars == <<source, into, pending, parser>>

----------------------------------------------------------------------------
(* Characters and strings                                                   *)

Upper == <<"A","B","C","D","E","F","G","H","I","J","K","L","M",
           "N","O","P","Q","R","S","T","U","V","W","X","Y","Z">>

Lower == <<"a","b","c","d","e","f","g","h","i","j","k","l","m",
           "n","o","p","q","r","s","t","u","v","w","x","y","z">>

Digits == {"0","1","2","3","4","5","6","7","8","9"}

\* the 25 characters of \s, which are those String.prototype.trim removes: tab, line
\* feed, vertical tab (U+000B), form feed, carriage return, space, and the 19 outside
\* ASCII, by the names of their code points
WhiteSpace ==
    {"\t", "\n", "", "\f", "\r", " ",
     "U+00A0", "U+1680", "U+2000", "U+2001", "U+2002", "U+2003", "U+2004", "U+2005",
     "U+2006", "U+2007", "U+2008", "U+2009", "U+200A", "U+2028", "U+2029", "U+202F",
     "U+205F", "U+3000", "U+FEFF"}

\* \s
IsSpace(c) == c \in WhiteSpace

\* \w
IsWord(c) == \/ \E i \in 1..26 : c = Upper[i] \/ c = Lower[i]
             \/ c \in Digits
             \/ c = "_"

\* String.prototype.toLowerCase, one character of ASCII: the source lowers a match of
\* \w+ (line 329), which is ASCII, and a text in which it looks for '@preferred' (line
\* 55), to no character of which a character outside ASCII is lowered; a character
\* outside ASCII is left as it is
LowerChar(c) == IF \E i \in 1..26 : c = Upper[i]
                THEN Lower[CHOOSE i \in 1..26 : c = Upper[i]]
                ELSE c

\* String.prototype.toLowerCase
ToLowerCase(s) == [i \in 1..Len(s) |-> LowerChar(s[i])]

\* String.prototype.substr(n): the string from the 0-based index n on
Substr(s, n) == IF n >= Len(s) THEN <<>> ELSE SubSeq(s, n + 1, Len(s))

\* the length of the longest prefix of the sequence of booleans b that is all TRUE:
\* what a greedy class* matches at the start of a string, b[i] telling whether the
\* i-th character is in the class
LeadingRun(b) ==
    IF \A i \in 1..Len(b) : b[i] THEN Len(b)
    ELSE (CHOOSE i \in 1..Len(b) : ~b[i] /\ \A j \in 1..(i - 1) : b[j]) - 1

\* the length of the longest suffix of b that is all TRUE: what class*$ matches
TrailingRun(b) ==
    IF \A i \in 1..Len(b) : b[i] THEN Len(b)
    ELSE Len(b) - (CHOOSE i \in 1..Len(b) : ~b[i] /\ \A j \in (i + 1)..Len(b) : b[j])

\* the number of leading characters of s that satisfy \s
LeadingSpaces(s) == LeadingRun([i \in 1..Len(s) |-> IsSpace(s[i])])

\* the number of trailing characters of s that satisfy \s
TrailingSpaces(s) == TrailingRun([i \in 1..Len(s) |-> IsSpace(s[i])])

\* line.replace(/\s*$/, '')
TrimEnd(s) == SubSeq(s, 1, Len(s) - TrailingSpaces(s))

\* String.prototype.trim
Trim(s) == TrimEnd(Substr(s, LeadingSpaces(s)))

\* String.prototype.indexOf(needle) != -1
Contains(s, needle) ==
    \E i \in 0..(Len(s) - Len(needle)) :
        SubSeq(s, i + 1, i + Len(needle)) = needle

\* the 1-based index of the first c in s, 0 when there is none
IndexOfChar(s, c) ==
    IF \E i \in 1..Len(s) : s[i] = c
    THEN CHOOSE i \in 1..Len(s) : s[i] = c /\ \A j \in 1..(i - 1) : s[j] # c
    ELSE 0

----------------------------------------------------------------------------
(* Models.Comment and Models.CommentTag                                     *)

\* new CommentTag(tagName, paramName, text); an undefined paramName is ''
CommentTag(tagName, paramName, text) ==
    [tagName |-> tagName, paramName |-> paramName, text |-> text]

\* new Comment(shortText): text '', returns and tags not set (both read as empty)
NewComment(shortText) ==
    [shortText |-> shortText, text |-> <<>>, returns |-> <<>>, tags |-> <<>>]

\* Comment.hasTag(tagName)
HasTag(c, tagName) == \E i \in 1..Len(c.tags) : c.tags[i].tagName = tagName

\* the 1-based index of the first tag of that name (and parameter), 0 when none
TagIndex(c, tagName) ==
    IF HasTag(c, tagName)
    THEN CHOOSE i \in 1..Len(c.tags) :
            /\ c.tags[i].tagName = tagName
            /\ \A j \in 1..(i - 1) : c.tags[j].tagName # tagName
    ELSE 0

ParamTagIndex(c, paramName) ==
    LET Match(i) == c.tags[i].tagName = <<"p","a","r","a","m">>
                    /\ c.tags[i].paramName = paramName
    IN IF \E i \in 1..Len(c.tags) : Match(i)
       THEN CHOOSE i \in 1..Len(c.tags) :
                Match(i) /\ \A j \in 1..(i - 1) : ~Match(j)
       ELSE 0

\* Comment.getTag(tagName): the first tag of that name
GetTag(c, tagName) == c.tags[TagIndex(c, tagName)]

\* Comment.getTag('param', paramName): the first 'param' tag of that parameter
GetParamTag(c, paramName) == c.tags[ParamTagIndex(c, paramName)]

\* the loop of removeTags with i++ after a splice as well: the tag that follows a
\* removed one is stepped over
RECURSIVE RemoveTagsLoopSkips(_, _, _)
RemoveTagsLoopSkips(tags, i, tagName) ==
    IF i > Len(tags) THEN tags
    ELSE IF tags[i].tagName = tagName
         THEN RemoveTagsLoopSkips(SubSeq(tags, 1, i - 1) \o SubSeq(tags, i + 1, Len(tags)),
                                  i + 1, tagName)
         ELSE RemoveTagsLoopSkips(tags, i + 1, tagName)

\* the loop of removeTags leaving after its first splice: only the first tag of that
\* name is removed
RECURSIVE RemoveTagsLoopFirstOnly(_, _, _)
RemoveTagsLoopFirstOnly(tags, i, tagName) ==
    IF i > Len(tags) THEN tags
    ELSE IF tags[i].tagName = tagName
         THEN SubSeq(tags, 1, i - 1) \o SubSeq(tags, i + 1, Len(tags))
         ELSE RemoveTagsLoopFirstOnly(tags, i + 1, tagName)

\* the loop of CommentPlugin.removeTags over comment.tags, from the 1-based index i:
\* a tag of that name is spliced out, any other is stepped over
RECURSIVE RemoveTagsLoop(_, _, _)
RemoveTagsLoop(tags, i, tagName) ==
    IF i > Len(tags) THEN tags
    ELSE IF tags[i].tagName = tagName
         THEN RemoveTagsLoop(SubSeq(tags, 1, i - 1) \o SubSeq(tags, i + 1, Len(tags)), i, tagName)
         ELSE RemoveTagsLoop(tags, i + 1, tagName)

\* CommentPlugin.removeTags(comment, tagName), comment not null
RemoveTags(c, tagName) == [c EXCEPT !.tags = RemoveTagsLoop(c.tags, 1, tagName)]

\* CommentPlugin.removeTags(comment, tagName) on an optional comment (<<>> is none)
RemoveTagsOpt(oc, tagName) == IF oc = <<>> THEN oc ELSE <<RemoveTags(oc[1], tagName)>>

----------------------------------------------------------------------------
(* CommentPlugin.parseComment                                               *)

\* consumeTypeData, one replace: a leading open ... close group is dropped
DropGroup(line, open, close) ==
    IF line # <<>> /\ Head(line) = open /\ IndexOfChar(line, close) # 0
    THEN Substr(line, IndexOfChar(line, close))
    ELSE line

\* consumeTypeData(line)
ConsumeTypeData(line) == Trim(DropGroup(DropGroup(line, "{", "}"), "[", "]"))

\* the number of leading "*" of s
LeadingStars(s) == LeadingRun([i \in 1..Len(s) |-> s[i] = "*"])

\* the number of trailing "*" of s
TrailingStars(s) == TrailingRun([i \in 1..Len(s) |-> s[i] = "*"])

\* text.replace(/^\s*\/\*+/, '')
StripOpen(text) ==
    LET rest == Substr(text, LeadingSpaces(text))
    IN IF Len(rest) >= 2 /\ rest[1] = "/" /\ rest[2] = "*"
       THEN Substr(rest, 1 + LeadingStars(Tail(rest)))
       ELSE text

\* text.replace(/\*+\/\s*$/, '')
StripClose(text) ==
    LET body == TrimEnd(text)
        n    == Len(body)
    IN IF n >= 2 /\ body[n] = "/" /\ body[n - 1] = "*"
       THEN SubSeq(body, 1, n - 1 - TrailingStars(SubSeq(body, 1, n - 1)))
       ELSE text

\* text.split(/\r\n?|\n/): the line before the first separator, then the split of
\* what follows it
RECURSIVE SplitLines(_)
SplitLines(text) ==
    LET n == LeadingRun([i \in 1..Len(text) |-> text[i] \notin {"\n", "\r"}])
    IN IF n = Len(text) THEN <<text>>
       ELSE LET sep == IF text[n + 1] = "\r" /\ n + 2 <= Len(text) /\ text[n + 2] = "\n"
                       THEN 2 ELSE 1
            IN <<SubSeq(text, 1, n)>> \o SplitLines(Substr(text, n + sep))

\* line.replace(/^\s*\*? ?/, '') then line.replace(/\s*$/, '')
StripGutter(line) ==
    LET a == Substr(line, LeadingSpaces(line))
        b == IF a # <<>> /\ Head(a) = "*" THEN Tail(a) ELSE a
        c == IF b # <<>> /\ Head(b) = " " THEN Tail(b) ELSE b
    IN TrimEnd(c)

\* the number of leading characters of s that satisfy \w
LeadingWord(s) == LeadingRun([i \in 1..Len(s) |-> IsWord(s[i])])

\* the number of leading characters of s that satisfy [^\s]
LeadingNonSpace(s) == LeadingRun([i \in 1..Len(s) |-> ~IsSpace(s[i])])

\* /^@(\w+)/.exec(line) matches
IsTagLine(line) == Len(line) >= 2 /\ line[1] = "@" /\ IsWord(line[2])

Str_return  == <<"r","e","t","u","r","n">>
Str_returns == <<"r","e","t","u","r","n","s">>
Str_param   == <<"p","a","r","a","m">>

\* lines 329-345 without line 338: the parameter's name is left in the tag's text
TagOfLineKeepsName(line) ==
    LET word    == ToLowerCase(SubSeq(line, 2, 1 + LeadingWord(Tail(line))))
        rest    == Trim(Substr(line, Len(word) + 1))
        tagName == IF word = Str_return THEN Str_returns ELSE word
    IN IF tagName = Str_param
       THEN LET l1    == ConsumeTypeData(rest)
                found == l1 # <<>>
                name  == SubSeq(l1, 1, LeadingNonSpace(l1))
            IN CommentTag(tagName, IF found THEN name ELSE <<>>, ConsumeTypeData(l1))
       ELSE IF tagName = Str_returns
       THEN CommentTag(tagName, <<>>, ConsumeTypeData(rest))
       ELSE CommentTag(tagName, <<>>, rest)

\* the tag a tag line opens: lines 329-345
TagOfLine(line) ==
    LET word    == ToLowerCase(SubSeq(line, 2, 1 + LeadingWord(Tail(line))))
        rest    == Trim(Substr(line, Len(word) + 1))
        tagName == IF word = Str_return THEN Str_returns ELSE word
    IN IF tagName = Str_param
       THEN LET l1    == ConsumeTypeData(rest)
                \* /[^\s]+/.exec(l1): l1 is trimmed, a match starts at its first character
                found == l1 # <<>>
                name  == SubSeq(l1, 1, LeadingNonSpace(l1))
                l2    == IF found THEN Trim(Substr(l1, Len(name) + 1)) ELSE l1
            IN CommentTag(tagName, IF found THEN name ELSE <<>>, ConsumeTypeData(l2))
       ELSE IF tagName = Str_returns
       THEN CommentTag(tagName, <<>>, ConsumeTypeData(rest))
       ELSE CommentTag(tagName, <<>>, rest)

\* a + (a == '' ? '' : '\n') + line
JoinLine(a, line) == IF a = <<>> THEN line ELSE a \o <<"\n">> \o line

\* the callback of lines.forEach without lines 353-354: a blank line after the first
\* paragraph is ignored like one before it
ParseLineNeverSwitches(st, rawLine) ==
    LET line == StripGutter(rawLine)
        c    == st.comment
    IN IF IsTagLine(line)
       THEN [st EXCEPT !.comment.tags = Append(c.tags, TagOfLine(line)),
                       !.currentTag = TRUE]
       ELSE IF st.currentTag
       THEN [st EXCEPT !.comment.tags[Len(c.tags)].text =
                            c.tags[Len(c.tags)].text \o <<"\n">> \o line]
       ELSE IF line = <<>> THEN st
       ELSE IF st.shortText = 2
       THEN [st EXCEPT !.comment.text = JoinLine(c.text, line)]
       ELSE [st EXCEPT !.comment.shortText = JoinLine(c.shortText, line),
                       !.shortText = 1]

\* the callback of lines.forEach with the test of line 349 behind those of lines
\* 351-353: a blank line is ignored or ends the first paragraph even when a tag is open
ParseLineBlankBeforeTag(st, rawLine) ==
    LET line == StripGutter(rawLine)
        c    == st.comment
    IN IF IsTagLine(line)
       THEN [st EXCEPT !.comment.tags = Append(c.tags, TagOfLine(line)),
                       !.currentTag = TRUE]
       ELSE IF line = <<>> /\ st.shortText = 0 THEN st
       ELSE IF line = <<>> /\ st.shortText = 1 THEN [st EXCEPT !.shortText = 2]
       ELSE IF st.currentTag
       THEN [st EXCEPT !.comment.tags[Len(c.tags)].text =
                            c.tags[Len(c.tags)].text \o <<"\n">> \o line]
       ELSE IF st.shortText = 2
       THEN [st EXCEPT !.comment.text = JoinLine(c.text, line)]
       ELSE [st EXCEPT !.comment.shortText = JoinLine(c.shortText, line),
                       !.shortText = 1]

\* the callback of lines.forEach: st is [comment, currentTag (is one open), shortText]
ParseLine(st, rawLine) ==
    LET line == StripGutter(rawLine)
        c    == st.comment
    IN IF IsTagLine(line)
       THEN [st EXCEPT !.comment.tags = Append(c.tags, TagOfLine(line)),
                       !.currentTag = TRUE]
       ELSE IF st.currentTag
       THEN [st EXCEPT !.comment.tags[Len(c.tags)].text =
                            c.tags[Len(c.tags)].text \o <<"\n">> \o line]
       ELSE IF line = <<>> /\ st.shortText = 0 THEN st
       ELSE IF line = <<>> /\ st.shortText = 1 THEN [st EXCEPT !.shortText = 2]
       ELSE IF st.shortText = 2
       THEN [st EXCEPT !.comment.text = JoinLine(c.text, line)]
       ELSE [st EXCEPT !.comment.shortText = JoinLine(c.shortText, line),
                       !.shortText = 1]

RECURSIVE ParseLines(_, _)
ParseLines(st, lines) ==
    IF lines = <<>> THEN st ELSE ParseLines(ParseLine(st, Head(lines)), Tail(lines))

\* the lines forEach visits: lines 317-322
LinesOf(text) == SplitLines(StripClose(StripOpen(text)))

\* the locals of parseComment with a new Comment() whatever the second argument is
ParserStartFresh(oc) ==
    [comment |-> NewComment(<<>>), currentTag |-> FALSE, shortText |-> 0]

\* the locals of parseComment before forEach (lines 310, 320, 321): oc is the optional
\* second argument, <<>> when it is undefined and the default new Comment() is taken
ParserStart(oc) ==
    [comment |-> IF oc = <<>> THEN NewComment(<<>>) ELSE oc[1],
     currentTag |-> FALSE, shortText |-> 0]

\* CommentPlugin.parseComment(text, comment)
ParseComment(text, oc) == ParseLines(ParserStart(oc), LinesOf(text)).comment

----------------------------------------------------------------------------
(* The raw comments the source tree hands in (the results of getComment)    *)

\* /** a */  (8 characters)
ModA ==
    <<"/","*","*"," ","a"," ","*","/">>

\* /** b */  (8 characters)
ModB ==
    <<"/","*","*"," ","b"," ","*","/">>

\* /** long module text */  (23 characters)
ModLong ==
    <<"/","*","*"," ","l","o","n","g"," ","m","o","d","u","l","e"," ","t","e","x","t"," ",
      "*","/">>

\* /** @preferred */  (17 characters)
ModPreferred ==
    <<"/","*","*"," ","@","p","r","e","f","e","r","r","e","d"," ","*","/">>

\* /** q\n * @Preferred\n */  (23 characters)
ModPreferredUpper ==
    <<"/","*","*"," ","q","\n"," ","*"," ","@","P","r","e","f","e","r","r","e","d","\n"," ",
      "*","/">>

\* /** A. \n * @param x the value\n * @returns done\n */  (50 characters)
DocFull ==
    <<"/","*","*"," ","A","."," ","\n"," ","*"," ","@","p","a","r","a","m"," ","x"," ","t",
      "h","e"," ","v","a","l","u","e","\n"," ","*"," ","@","r","e","t","u","r","n","s"," ",
      "d","o","n","e","\n"," ","*","/">>

\* /** @returns */  (15 characters)
DocEmptyReturns ==
    <<"/","*","*"," ","@","r","e","t","u","r","n","s"," ","*","/">>

\* /** s\n@param x sig\n@return S*/  (30 characters)
DocSig ==
    <<"/","*","*"," ","s","\n","@","p","a","r","a","m"," ","x"," ","s","i","g","\n","@","r",
      "e","t","u","r","n"," ","S","*","/">>

\* /** @private\n@private\n@public*/  (31 characters)
DocModifiers ==
    <<"/","*","*"," ","@","p","r","i","v","a","t","e","\n","@","p","r","i","v","a","t","e",
      "\n","@","p","u","b","l","i","c","*","/">>

\* /** d\n\nmore\n@param x dx\n@param {T} y [o] dy\n@param z zz\n@returns {N} R*/  (72 characters)
DocDecl ==
    <<"/","*","*"," ","d","\n","\n","m","o","r","e","\n","@","p","a","r","a","m"," ","x",
      " ","d","x","\n","@","p","a","r","a","m"," ","{","T","}"," ","y"," ","[","o","]"," ",
      "d","y","\n","@","p","a","r","a","m"," ","z"," ","z","z","\n","@","r","e","t","u","r",
      "n","s"," ","{","N","}"," ","R","*","/">>

\* /** g\n@param T one\n@returns r\n@param U two\n@param T three*/  (59 characters)
DocGeneric ==
    <<"/","*","*"," ","g","\n","@","p","a","r","a","m"," ","T"," ","o","n","e","\n","@","r",
      "e","t","u","r","n","s"," ","r","\n","@","p","a","r","a","m"," ","U"," ","t","w","o",
      "\n","@","p","a","r","a","m"," ","T"," ","t","h","r","e","e","*","/">>

\* /** h\n@param x v\n@param T the element type*/  (44 characters)
DocElement ==
    <<"/","*","*"," ","h","\n","@","p","a","r","a","m"," ","x"," ","v","\n","@","p","a","r",
      "a","m"," ","T"," ","t","h","e"," ","e","l","e","m","e","n","t"," ","t","y","p","e",
      "*","/">>

\* getComment found no comment: null
NoText == <<>>

\* a line of prose behind a gutter: " * a"
LineGutter ==
    <<" ","*"," ","a">>

\* a line of prose without a gutter, a space, an em space and a vertical tab behind
\* it: "b \u2003\v"
LinePlain ==
    <<"b"," ","U+2003","">>

\* a line that is blank once its gutter is removed: " *"
LineBlank ==
    <<" ","*">>

\* a tag line: " * @param x t"
LineParam ==
    <<" ","*"," ","@","p","a","r","a","m"," ","x"," ","t">>

\* a tag line without a gutter: "@return r"
LineReturn ==
    <<"@","r","e","t","u","r","n"," ","r">>

ParseLineSet == {LineGutter, LinePlain, LineBlank, LineParam, LineReturn}

MaxLines == 4

\* the sequences of 1..n elements of the set S
SeqsUpTo(S, n) == UNION {[1..k -> S] : k \in 1..n}

\* the lines joined by line breaks
RECURSIVE NewlineJoin(_)
NewlineJoin(ls) ==
    IF ls = <<>> THEN <<>>
    ELSE IF Len(ls) = 1 THEN ls[1]
    ELSE ls[1] \o <<"\n">> \o NewlineJoin(Tail(ls))

\* the doc comment whose body is the lines given
Compose(ls) == <<"/", "*", "*">> \o NewlineJoin(ls) \o <<"*", "/">>

\* the texts parseComment is called with
ParseTexts == {Compose(ls) : ls \in SeqsUpTo(ParseLineSet, MaxLines)} \cup {DocFull}

\* the comments parseComment is called with: none (the default new Comment()), or
\* the comment of a reflection documented before (that of DocSig)
IntoComments == {<<>>, <<ParseComment(DocSig, <<>>)>>}

ModuleComments == {ModA, ModB, ModLong, ModPreferred, ModPreferredUpper}

DocComments == {DocEmptyReturns, DocSig, DocModifiers, DocDecl}

GenericComments == {DocGeneric, DocElement}

----------------------------------------------------------------------------
(* The reflections of a project: two modules, a variable, a function with    *)
(* two signatures f(x) and f(x, y), and a class with three type parameters   *)

ModuleIds == {1, 2}

DeclIds == {3, 4, 5, 6}

ClassId == 7

TypeParamIds == {8, 9, 10}

Reflections == ModuleIds \cup DeclIds \cup {ClassId} \cup TypeParamIds

\* reflection.kind
Kind(r) == CASE r \in ModuleIds -> "Module"
             [] r = 3 -> "Variable"
             [] r = 4 -> "Function"
             [] r = ClassId -> "Class"
             [] r \in TypeParamIds -> "TypeParameter"
             [] OTHER -> "CallSignature"

\* reflection instanceof DeclarationReflection
IsDeclarationReflection(r) ==
    Kind(r) \in {"Module", "Variable", "Function", "Method", "Class"}

\* reflection.parent of a type parameter
TypeParamParent(t) == ClassId

Str_T == <<"T">>
Str_U == <<"U">>

\* reflection.name of a type parameter: the first and the last have the same name
TypeParamName(t) == IF t = 9 THEN Str_U ELSE Str_T

\* reflection.getAllSignatures(), in declaration order
GetAllSignatures(r) == IF r = 4 THEN <<5, 6>> ELSE <<>>

SignatureIds == {5, 6}

Str_x == <<"x">>
Str_y == <<"y">>

\* signature.parameters: the names, in order
Parameters(sig) == IF sig = 5 THEN <<Str_x>> ELSE <<Str_x, Str_y>>

MaxEvents == 3

MaxRecords == 3

MaxHooks == 2

MaxDeclarations == 2

----------------------------------------------------------------------------
(* The handlers of CommentPlugin                                            *)

Str_preferred   == <<"p","r","e","f","e","r","r","e","d">>
Str_atPreferred == <<"@">> \o Str_preferred
Str_private     == <<"p","r","i","v","a","t","e">>
Str_protected   == <<"p","r","o","t","e","c","t","e","d">>
Str_public      == <<"p","u","b","l","i","c">>

\* comment.toLowerCase().indexOf('@preferred') != -1
IsPreferred(text) == Contains(ToLowerCase(text), Str_atPreferred)

\* line 59 without the test of info.isPreferred
KeepsStoredByLengthOnly(info, text) ==
    ~IsPreferred(text) /\ Len(info.fullText) > Len(text)

\* line 59 with >= for >
KeepsStoredOnTie(info, text) ==
    ~IsPreferred(text) /\ (info.isPreferred \/ Len(info.fullText) >= Len(text))

\* line 59 without the comparison of the lengths
KeepsStoredPreferredOnly(info, text) ==
    ~IsPreferred(text) /\ info.isPreferred

\* the test of line 59: the stored candidate info is kept, the new text dropped
KeepsStored(info, text) ==
    ~IsPreferred(text) /\ (info.isPreferred \/ Len(info.fullText) > Len(text))

\* CommentPlugin.storeModuleComment(comment, reflection) on the table this.comments
StoreModuleComment(table, text, id) ==
    IF id \in DOMAIN table
    THEN IF KeepsStored(table[id], text)
         THEN table
         ELSE [table EXCEPT ![id].fullText = text, ![id].isPreferred = IsPreferred(text)]
    ELSE (id :> [reflection |-> id, fullText |-> text, isPreferred |-> IsPreferred(text)])
         @@ table

\* a step of applyAccessModifiers without its removeTags call
ApplyModifierKeepsTags(fc, tagName, flag) ==
    IF HasTag(fc.comment, tagName)
    THEN [flags |-> fc.flags \cup {flag}, comment |-> fc.comment]
    ELSE fc

\* one of the three steps of applyAccessModifiers, on [flags, comment]
ApplyModifier(fc, tagName, flag) ==
    IF HasTag(fc.comment, tagName)
    THEN [flags |-> fc.flags \cup {flag}, comment |-> RemoveTags(fc.comment, tagName)]
    ELSE fc

\* CommentPlugin.applyAccessModifiers(reflection, comment): the reflection's flags
\* and the comment after the call
ApplyAccessModifiers(fl, c) ==
    ApplyModifier(
        ApplyModifier(
            ApplyModifier([flags |-> fl, comment |-> c], Str_private, "Private"),
            Str_protected, "Protected"),
        Str_public, "Public")

\* a || b on strings: the empty (or unset) string is falsy
OrElse(a, b) == IF a # <<>> THEN a ELSE b

\* onBegin without line 81: the table of the last conversion is kept
OnBeginKeepsTable ==
    /\ phase \in {"constructed", "resolving"}
    /\ phase' = "converting"
    /\ comments' = comments
    /\ comment' = [r \in Reflections |-> <<>>]
    /\ flags' = [r \in Reflections |-> {}]
    /\ paramComment' = [sig \in SignatureIds |-> [i \in 1..Len(Parameters(sig)) |-> <<>>]]
    /\ recorded' = [id \in ModuleIds |-> <<>>]
    /\ stale' = DOMAIN comments
    /\ resolved' = {}
    /\ nEvents' = 0
    /\ created' = {}
    /\ UNCHANGED parseVars

\* onBegin, on EVENT_BEGIN: the table is reset; the converter starts on a new project,
\* whose reflections have no comment and no flag yet
OnBegin ==
    /\ phase \in {"constructed", "resolving"}
    /\ phase' = "converting"
    /\ comments' = <<>>
    /\ comment' = [r \in Reflections |-> <<>>]
    /\ flags' = [r \in Reflections |-> {}]
    /\ paramComment' = [sig \in SignatureIds |-> [i \in 1..Len(Parameters(sig)) |-> <<>>]]
    /\ recorded' = [id \in ModuleIds |-> <<>>]
    /\ stale' = DOMAIN comments
    /\ resolved' = {}
    /\ nEvents' = 0
    /\ created' = {}
    /\ UNCHANGED parseVars

\* the tags without the one at the 1-based index i: tags.splice(i - 1, 1)
Splice(tags, i) == SubSeq(tags, 1, i - 1) \o SubSeq(tags, i + 1, Len(tags))

\* onCreateTypeParameter without line 92: the tag stays in the parent's comment
OnCreateTypeParameterKeepsTag(t) ==
    /\ phase = "converting"
    /\ t \notin created
    /\ created' = created \cup {t}
    /\ UNCHANGED <<phase, comments, flags, paramComment, recorded, stale, resolved, nEvents,
                   parseVars>>
    /\ LET parent == comment[TypeParamParent(t)]
       IN IF parent # <<>> /\ ParamTagIndex(parent[1], TypeParamName(t)) # 0
          THEN comment' = [comment EXCEPT
                  ![t] = <<NewComment(GetParamTag(parent[1], TypeParamName(t)).text)>>]
          ELSE UNCHANGED comment

\* onCreateTypeParameter, on EVENT_CREATE_TYPE_PARAMETER, for the type parameter t,
\* dispatched once for each type parameter
OnCreateTypeParameter(t) ==
    /\ phase = "converting"
    /\ t \notin created
    /\ created' = created \cup {t}
    /\ UNCHANGED <<phase, comments, flags, paramComment, recorded, stale, resolved, nEvents,
                   parseVars>>
    /\ LET parent == comment[TypeParamParent(t)]
       IN IF parent # <<>> /\ ParamTagIndex(parent[1], TypeParamName(t)) # 0
          THEN LET i == ParamTagIndex(parent[1], TypeParamName(t))
               IN comment' = [comment EXCEPT
                      ![t] = <<NewComment(parent[1].tags[i].text)>>,
                      ![TypeParamParent(t)] =
                          <<[parent[1] EXCEPT !.tags = Splice(parent[1].tags, i)]>>]
          ELSE UNCHANGED comment

\* onDeclaration, on EVENT_CREATE_DECLARATION and EVENT_CREATE_SIGNATURE, for the
\* reflection r and a node whose comment is raw
OnDeclaration(r, raw) ==
    /\ phase = "converting"
    /\ nEvents' = IF raw = NoText THEN nEvents ELSE nEvents + 1
    /\ UNCHANGED <<phase, paramComment, stale, resolved, created, parseVars>>
    /\ IF raw = NoText
       THEN UNCHANGED <<comments, comment, flags, recorded>>
       ELSE IF Kind(r) \in {"Function", "Method"}
       THEN LET fc == ApplyAccessModifiers(flags[r], ParseComment(raw, comment[r]))
            IN /\ flags' = [flags EXCEPT ![r] = fc.flags]
               \* the parsed comment is the reflection's own when it had one,
               \* and is not attached when it had none
               /\ comment' = [comment EXCEPT ![r] = IF @ = <<>> THEN @ ELSE <<fc.comment>>]
               /\ UNCHANGED <<comments, recorded>>
       ELSE IF Kind(r) = "Module"
       THEN /\ comments' = StoreModuleComment(comments, raw, r)
            /\ recorded' = [recorded EXCEPT ![r] = Append(@, raw)]
            /\ UNCHANGED <<comment, flags>>
       ELSE LET fc == ApplyAccessModifiers(flags[r], ParseComment(raw, comment[r]))
            IN /\ flags' = [flags EXCEPT ![r] = fc.flags]
               /\ comment' = [comment EXCEPT ![r] = <<fc.comment>>]
               /\ UNCHANGED <<comments, recorded>>

\* onFunctionImplementation, on EVENT_FUNCTION_IMPLEMENTATION
OnFunctionImplementation(r, raw) ==
    /\ phase = "converting"
    /\ nEvents' = IF raw = NoText THEN nEvents ELSE nEvents + 1
    /\ comment' = IF raw = NoText THEN comment
                  ELSE [comment EXCEPT ![r] = <<ParseComment(raw, comment[r])>>]
    /\ UNCHANGED <<phase, comments, flags, paramComment, recorded, stale, resolved, created,
                   parseVars>>

\* lines 160-163 without line 161: the 'preferred' tags stay in the comment
ModuleCommentKeepsPreferred(info) == ParseComment(info.fullText, <<>>)

\* the comment onBeginResolve gives the reflection of the candidate info
ModuleComment(info) == RemoveTags(ParseComment(info.fullText, <<>>), Str_preferred)

\* onBeginResolve with the table emptied once its candidates are assigned
OnBeginResolveDiscards ==
    /\ phase = "converting"
    /\ phase' = "resolving"
    /\ comment' = [r \in Reflections |->
                      IF \E id \in DOMAIN comments : comments[id].reflection = r
                      THEN LET id == CHOOSE id \in DOMAIN comments :
                                        comments[id].reflection = r
                           IN <<ModuleComment(comments[id])>>
                      ELSE comment[r]]
    /\ comments' = <<>>
    /\ UNCHANGED <<flags, paramComment, recorded, stale, resolved, nEvents, created, parseVars>>

\* onBeginResolve, on EVENT_RESOLVE_BEGIN
OnBeginResolve ==
    /\ phase = "converting"
    /\ phase' = "resolving"
    /\ comment' = [r \in Reflections |->
                      IF \E id \in DOMAIN comments : comments[id].reflection = r
                      THEN LET id == CHOOSE id \in DOMAIN comments :
                                        comments[id].reflection = r
                           IN <<ModuleComment(comments[id])>>
                      ELSE comment[r]]
    /\ UNCHANGED <<comments, flags, paramComment, recorded, stale, resolved, nEvents, created,
                   parseVars>>

\* lines 186-189 and 193-196 without the removeTags call
ResolveReturnsKeepsTags(oc) ==
    IF oc # <<>> /\ HasTag(oc[1], Str_returns)
    THEN <<[oc[1] EXCEPT !.returns = GetTag(oc[1], Str_returns).text]>>
    ELSE oc

\* lines 186-189 and 193-196: a 'returns' tag moves into comment.returns
ResolveReturns(oc) ==
    IF oc # <<>> /\ HasTag(oc[1], Str_returns)
    THEN <<RemoveTags([oc[1] EXCEPT !.returns = GetTag(oc[1], Str_returns).text],
                      Str_returns)>>
    ELSE oc

\* lines 198-206 with line 205 assigning comment.returns whatever the signature has
InheritCommentOverwritesReturns(decl, child) ==
    IF decl # <<>>
    THEN LET c == IF child = <<>> THEN NewComment(<<>>) ELSE child[1]
         IN <<[c EXCEPT !.shortText = OrElse(c.shortText, decl[1].shortText),
                        !.text      = OrElse(c.text, decl[1].text),
                        !.returns   = decl[1].returns]>>
    ELSE child

\* lines 198-206 with line 203 assigning comment.shortText whatever the signature has
InheritCommentOverwritesShortText(decl, child) ==
    IF decl # <<>>
    THEN LET c == IF child = <<>> THEN NewComment(<<>>) ELSE child[1]
         IN <<[c EXCEPT !.shortText = decl[1].shortText,
                        !.text      = OrElse(c.text, decl[1].text),
                        !.returns   = OrElse(c.returns, decl[1].returns)]>>
    ELSE child

\* lines 198-206: the signature's comment takes what it lacks from the declaration's
InheritComment(decl, child) ==
    IF decl # <<>>
    THEN LET c == IF child = <<>> THEN NewComment(<<>>) ELSE child[1]
         IN <<[c EXCEPT !.shortText = OrElse(c.shortText, decl[1].shortText),
                        !.text      = OrElse(c.text, decl[1].text),
                        !.returns   = OrElse(c.returns, decl[1].returns)]>>
    ELSE child

\* lines 210-212 with the declaration's comment searched first
FindParamTagDeclarationFirst(decl, child, name) ==
    LET top == IF decl # <<>> /\ ParamTagIndex(decl[1], name) # 0
               THEN <<GetParamTag(decl[1], name)>>
               ELSE <<>>
    IN IF child # <<>> /\ top = <<>> /\ ParamTagIndex(child[1], name) # 0
       THEN <<GetParamTag(child[1], name)>>
       ELSE top

\* lines 210-212: the 'param' tag for a parameter, <<>> when there is none
FindParamTag(decl, child, name) ==
    LET own == IF child # <<>> /\ ParamTagIndex(child[1], name) # 0
               THEN <<GetParamTag(child[1], name)>>
               ELSE <<>>
    IN IF decl # <<>> /\ own = <<>> /\ ParamTagIndex(decl[1], name) # 0
       THEN <<GetParamTag(decl[1], name)>>
       ELSE own

\* the callback of signatures.forEach (lines 191-220) for the signature sig, decl
\* being the declaration's comment: the signature's comment and its parameters'
\* comments after it
ResolveSignature(decl, sig) ==
    LET child == InheritComment(decl, ResolveReturns(comment[sig]))
        names == Parameters(sig)
    IN [comment |-> RemoveTagsOpt(child, Str_param),
        params  |-> [i \in 1..Len(names) |->
                        LET tag == FindParamTag(decl, child, names[i])
                        IN IF tag # <<>>
                           THEN <<NewComment(tag[1].text)>>
                           ELSE paramComment[sig][i]]]

\* onResolve with line 222 inside the callback of signatures.forEach: the
\* declaration's 'param' tags are removed once the first signature is done
OnResolveRemovesPerSignature(r) ==
    /\ phase = "resolving"
    /\ r \notin resolved
    /\ resolved' = resolved \cup {r}
    /\ UNCHANGED <<phase, comments, flags, recorded, stale, nEvents, created, parseVars>>
    /\ IF IsDeclarationReflection(r) /\ Len(GetAllSignatures(r)) > 0
       THEN LET decl == ResolveReturns(comment[r])
                sigs == {GetAllSignatures(r)[i] : i \in 1..Len(GetAllSignatures(r))}
                DeclFor(x) == IF x = GetAllSignatures(r)[1] THEN decl
                              ELSE RemoveTagsOpt(decl, Str_param)
            IN /\ comment' = [x \in Reflections |->
                                 IF x = r THEN RemoveTagsOpt(decl, Str_param)
                                 ELSE IF x \in sigs
                                 THEN ResolveSignature(DeclFor(x), x).comment
                                 ELSE comment[x]]
               /\ paramComment' = [s \in SignatureIds |->
                                      IF s \in sigs THEN ResolveSignature(DeclFor(s), s).params
                                      ELSE paramComment[s]]
       ELSE UNCHANGED <<comment, paramComment>>

\* onResolve without the test of line 184: the declaration's own tags are resolved
\* whether it owns a signature or not
OnResolveWithoutSignatureTest(r) ==
    /\ phase = "resolving"
    /\ r \notin resolved
    /\ resolved' = resolved \cup {r}
    /\ UNCHANGED <<phase, comments, flags, recorded, stale, nEvents, created, parseVars>>
    /\ IF IsDeclarationReflection(r)
       THEN LET decl == ResolveReturns(comment[r])
                sigs == {GetAllSignatures(r)[i] : i \in 1..Len(GetAllSignatures(r))}
            IN /\ comment' = [x \in Reflections |->
                                 IF x = r THEN RemoveTagsOpt(decl, Str_param)
                                 ELSE IF x \in sigs THEN ResolveSignature(decl, x).comment
                                 ELSE comment[x]]
               /\ paramComment' = [s \in SignatureIds |->
                                      IF s \in sigs THEN ResolveSignature(decl, s).params
                                      ELSE paramComment[s]]
       ELSE UNCHANGED <<comment, paramComment>>

\* onResolve, on EVENT_RESOLVE, for the reflection r
OnResolve(r) ==
    /\ phase = "resolving"
    /\ r \notin resolved
    /\ resolved' = resolved \cup {r}
    /\ UNCHANGED <<phase, comments, flags, recorded, stale, nEvents, created, parseVars>>
    /\ IF IsDeclarationReflection(r) /\ Len(GetAllSignatures(r)) > 0
       THEN LET decl == ResolveReturns(comment[r])
                sigs == {GetAllSignatures(r)[i] : i \in 1..Len(GetAllSignatures(r))}
            IN /\ comment' = [x \in Reflections |->
                                 IF x = r THEN RemoveTagsOpt(decl, Str_param)
                                 ELSE IF x \in sigs THEN ResolveSignature(decl, x).comment
                                 ELSE comment[x]]
               /\ paramComment' = [s \in SignatureIds |->
                                      IF s \in sigs THEN ResolveSignature(decl, s).params
                                      ELSE paramComment[s]]
       ELSE UNCHANGED <<comment, paramComment>>

----------------------------------------------------------------------------
(* The specifications                                                       *)

\* the plugin once constructed: this.comments is not assigned before onBegin, and no
\* handler reads it before; it is the table without an entry
Init ==
    /\ phase = "constructed"
    /\ comments = <<>>
    /\ comment = [r \in Reflections |-> <<>>]
    /\ flags = [r \in Reflections |-> {}]
    /\ paramComment = [sig \in SignatureIds |-> [i \in 1..Len(Parameters(sig)) |-> <<>>]]
    /\ recorded = [id \in ModuleIds |-> <<>>]
    /\ stale = {}
    /\ resolved = {}
    /\ nEvents = 0
    /\ created = {}
    /\ source = <<>>
    /\ into = <<>>
    /\ pending = <<>>
    /\ parser = ParserStart(<<>>)

\* a conversion of the declarations of a project
Next ==
    \/ OnBegin
    \/ \E r \in DeclIds, raw \in DocComments \cup {NoText} :
          nEvents < MaxEvents /\ OnDeclaration(r, raw)
    \/ \E raw \in DocComments \cup {NoText} :
          nEvents < MaxEvents /\ OnFunctionImplementation(4, raw)
    \/ OnBeginResolve
    \/ \E r \in DeclIds : OnResolve(r)

Spec == Init /\ [][Next]_vars

\* a conversion of the module declarations of a project
NextModule ==
    \/ OnBegin
    \/ \E r \in ModuleIds, raw \in ModuleComments \cup {NoText} :
          nEvents < MaxRecords /\ OnDeclaration(r, raw)
    \/ OnBeginResolve
    \/ \E r \in ModuleIds : OnResolve(r)

SpecModule == Init /\ [][NextModule]_vars

\* the construction of the declarations of a project, hook by hook
NextHooks ==
    \/ OnBegin
    \/ \E r \in DeclIds, raw \in DocComments \cup {NoText} :
          nEvents < MaxHooks /\ OnDeclaration(r, raw)
    \/ \E raw \in DocComments \cup {NoText} :
          nEvents < MaxHooks /\ OnFunctionImplementation(4, raw)

SpecHooks == Init /\ [][NextHooks]_vars

\* the construction of a generic class: its declarations, then its type parameters
NextGeneric ==
    \/ OnBegin
    \/ \E raw \in GenericComments \cup {NoText} :
          nEvents < MaxDeclarations /\ OnDeclaration(ClassId, raw)
    \/ \E t \in TypeParamIds : OnCreateTypeParameter(t)
    \/ OnBeginResolve

SpecGeneric == Init /\ [][NextGeneric]_vars

\* parseComment entered with a text and, or not, a comment to parse into
InitParse ==
    /\ phase = "constructed"
    /\ comments = <<>>
    /\ comment = [r \in Reflections |-> <<>>]
    /\ flags = [r \in Reflections |-> {}]
    /\ paramComment = [sig \in SignatureIds |-> [i \in 1..Len(Parameters(sig)) |-> <<>>]]
    /\ recorded = [id \in ModuleIds |-> <<>>]
    /\ stale = {}
    /\ resolved = {}
    /\ nEvents = 0
    /\ created = {}
    /\ source \in ParseTexts
    /\ into \in IntoComments
    /\ pending = LinesOf(source)
    /\ parser = ParserStart(into)

\* one call of the callback of lines.forEach (lines 323-364), for the next line
ParseLineStep ==
    /\ pending # <<>>
    /\ parser' = ParseLine(parser, Head(pending))
    /\ pending' = Tail(pending)
    /\ UNCHANGED <<phase, comments, comment, flags, paramComment, recorded, stale, resolved,
                   nEvents, created, source, into>>

\* a call of parseComment, line by line
NextParse == ParseLineStep

SpecParse == InitParse /\ [][NextParse]_vars

----------------------------------------------------------------------------
(* The module comment candidates (checked under SpecModule)                 *)

\* storeModuleComment applied to the texts, in order, from the table given
RECURSIVE StoreAll(_, _, _)
StoreAll(table, texts, id) ==
    IF texts = <<>> THEN table
    ELSE StoreAll(StoreModuleComment(table, Head(texts), id), Tail(texts), id)

\* the greatest length among the texts
RECURSIVE MaxLength(_)
MaxLength(texts) ==
    IF texts = <<>> THEN 0
    ELSE LET m == MaxLength(Tail(texts))
         IN IF Len(Head(texts)) > m THEN Len(Head(texts)) ELSE m

AnyPreferred(texts) == \E i \in 1..Len(texts) : IsPreferred(texts[i])

\* C1: when one of the texts recorded for a module in this conversion contains
\* '@preferred' (in any case), the candidate retained for the module is a preferred
\* one, whatever the order and the lengths of the texts.
C1_PreferredWins ==
    \A id \in ModuleIds :
        AnyPreferred(recorded[id]) =>
            /\ id \in DOMAIN comments
            /\ comments[id].isPreferred
            /\ IsPreferred(comments[id].fullText)

\* a preferred text was recorded between a shorter and a longer plain text, and is retained
C1_Witness ==
    /\ recorded[1] = <<ModA, ModPreferred, ModLong>>
    /\ comments[1].fullText = ModPreferred

\* the step of storeModuleComment the tie-break law is about: a text for a module
\* whose stored candidate has the same preference flag and the same length
TieStep(id, raw) ==
    /\ OnDeclaration(id, raw)
    /\ id \in DOMAIN comments
    /\ comments[id].isPreferred = IsPreferred(raw)
    /\ Len(comments[id].fullText) = Len(raw)

\* C2, as claimed: a new candidate with the same preference flag and the same length
\* as the stored one does not replace it.
C2_TieKeepsStored ==
    [][\A id \in ModuleIds, raw \in ModuleComments :
          TieStep(id, raw) => comments'[id] = comments[id]]_vars

\* C2, amended: a new candidate with the same preference flag and the same length as
\* the stored one replaces it, so that of two plain candidates of equal length the
\* last recorded is retained.
C2_TieReplacesStored ==
    [][\A id \in ModuleIds, raw \in ModuleComments :
          TieStep(id, raw) =>
              /\ comments'[id].fullText = raw
              /\ comments'[id].isPreferred = IsPreferred(raw)]_vars

\* two plain texts of equal length were recorded and the second is retained
C2_Witness ==
    /\ recorded[1] = <<ModA, ModB>>
    /\ comments[1].fullText = ModB

\* C3: when no text recorded for a module contains '@preferred', the retained
\* fullText is as long as the longest text recorded.
C3_LongestWins ==
    \A id \in ModuleIds :
        (recorded[id] # <<>> /\ ~AnyPreferred(recorded[id])) =>
            /\ id \in DOMAIN comments
            /\ Len(comments[id].fullText) = MaxLength(recorded[id])

\* the longest text was recorded between two shorter ones and is retained
C3_Witness ==
    /\ recorded[2] = <<ModA, ModLong, ModB>>
    /\ comments[2].fullText = ModLong

\* C4, as claimed: once onBeginResolve has run the candidate table is empty.
C4_TableEmptyWhenResolving == phase = "resolving" => DOMAIN comments = {}

\* C4, amended: once onBeginResolve has run, every candidate has been consumed (its
\* reflection's comment is the parse of its fullText without 'preferred' tags), but
\* the table is not discarded: it holds every candidate while onResolve runs.
C4_TableKeptWhenResolving ==
    phase = "resolving" =>
        \A id \in ModuleIds :
            /\ id \in DOMAIN comments <=> recorded[id] # <<>>
            /\ id \in DOMAIN comments => comment[id] = <<ModuleComment(comments[id])>>

\* onResolve has run for a module whose candidate is still in the table
C4_Witness ==
    /\ phase = "resolving"
    /\ 1 \in resolved
    /\ 1 \in DOMAIN comments
    /\ comments[1].fullText = ModLong
    /\ comment[1] = <<NewComment(<<"l","o","n","g"," ","m","o","d","u","l","e"," ","t","e","x","t">>)>>

\* C5: nothing recorded in an earlier conversion influences a later one: the table
\* is what storeModuleComment makes of this conversion's texts alone, starting from
\* an empty table, and the comment assigned at resolve-begin is the parse of that.
C5_NoCarryOver ==
    \A id \in ModuleIds :
        LET alone == StoreAll(<<>>, recorded[id], id)
        IN /\ id \in DOMAIN comments <=> id \in DOMAIN alone
           /\ id \in DOMAIN comments => comments[id] = alone[id]
           /\ phase = "resolving" =>
                 comment[id] = IF id \in DOMAIN alone
                               THEN <<ModuleComment(alone[id])>>
                               ELSE <<>>

\* a second conversion, after one that left candidates for both modules: module 1
\* has a new text and module 2 has none
C5_Witness ==
    /\ stale = {1, 2}
    /\ phase = "resolving"
    /\ recorded[1] = <<ModA>>
    /\ comments[1].fullText = ModA
    /\ recorded[2] = <<>>
    /\ comment[2] = <<>>

----------------------------------------------------------------------------
(* The reconciliation of signatures and the access modifiers (checked under *)
(* Spec)                                                                     *)

\* onResolve runs for the declaration r, which owns at least one signature
ResolveStep(r) == OnResolve(r) /\ IsDeclarationReflection(r) /\ Len(GetAllSignatures(r)) > 0

SignaturesOf(r) == {GetAllSignatures(r)[i] : i \in 1..Len(GetAllSignatures(r))}

HasTagOpt(oc, tagName) == oc # <<>> /\ HasTag(oc[1], tagName)

\* the returns field of an optional comment, empty when there is no comment
ReturnsOf(oc) == IF oc = <<>> THEN <<>> ELSE oc[1].returns

\* the returns value of an optional comment once its 'returns' tag, if any, has moved
ReturnsValue(oc) ==
    IF HasTagOpt(oc, Str_returns) THEN GetTag(oc[1], Str_returns).text ELSE ReturnsOf(oc)

\* C6, as claimed: after onResolve, a signature whose own comment had a 'returns' tag
\* has returns equal to that tag's text, and a signature without the tag and with
\* empty returns has the declaration's returns value.
C6_ReturnsPerSignature ==
    [][\A r \in DeclIds : ResolveStep(r) =>
          \A s \in SignaturesOf(r) :
              /\ HasTagOpt(comment[s], Str_returns) =>
                    ReturnsOf(comment'[s]) = GetTag(comment[s][1], Str_returns).text
              /\ (~HasTagOpt(comment[s], Str_returns) /\ ReturnsOf(comment[s]) = <<>>) =>
                    ReturnsOf(comment'[s]) = ReturnsValue(comment[r])]_vars

\* C6, amended: after onResolve, a signature whose own comment had a 'returns' tag
\* with a non-empty text has returns equal to that text; a signature whose tag had an
\* empty text, or that had no tag and empty returns, has the declaration's returns value.
C6_ReturnsPerSignatureNonEmpty ==
    [][\A r \in DeclIds : ResolveStep(r) =>
          \A s \in SignaturesOf(r) :
              /\ (HasTagOpt(comment[s], Str_returns)
                    /\ GetTag(comment[s][1], Str_returns).text # <<>>) =>
                    ReturnsOf(comment'[s]) = GetTag(comment[s][1], Str_returns).text
              /\ (HasTagOpt(comment[s], Str_returns)
                    /\ GetTag(comment[s][1], Str_returns).text = <<>>) =>
                    ReturnsOf(comment'[s]) = ReturnsValue(comment[r])
              /\ (~HasTagOpt(comment[s], Str_returns) /\ ReturnsOf(comment[s]) = <<>>) =>
                    ReturnsOf(comment'[s]) = ReturnsValue(comment[r])]_vars

\* the declaration returns "R", the first signature had its own "S" and keeps it,
\* the second had none and gets "R"
C6_Witness ==
    /\ 4 \in resolved
    /\ ReturnsOf(comment[4]) = <<"R">>
    /\ ReturnsOf(comment[5]) = <<"S">>
    /\ ReturnsOf(comment[6]) = <<"R">>

\* the comment onResolve is to give the parameter name of a signature whose comment
\* was own, under a declaration whose comment was decl: <<>> is no comment
SpecificParamComment(decl, own, name) ==
    IF own # <<>> /\ ParamTagIndex(own[1], name) # 0
    THEN <<NewComment(GetParamTag(own[1], name).text)>>
    ELSE IF decl # <<>> /\ ParamTagIndex(decl[1], name) # 0
    THEN <<NewComment(GetParamTag(decl[1], name).text)>>
    ELSE <<>>

\* C7: after onResolve, a parameter's comment is built from the text of the 'param'
\* tag of its name in the signature's own comment when there is one, from the
\* declaration's tag only when the signature has none, and the parameter has no
\* comment when neither has one.
C7_ParameterSpecificity ==
    [][\A r \in DeclIds : ResolveStep(r) =>
          \A s \in SignaturesOf(r) : \A i \in 1..Len(Parameters(s)) :
              paramComment'[s][i] =
                  SpecificParamComment(comment[r], comment[s], Parameters(s)[i])]_vars

\* x is documented by both signatures ("sig") and by the declaration ("dx"), y by
\* the declaration alone ("dy"): both x have the signatures' text, y the declaration's
C7_Witness ==
    /\ 4 \in resolved
    /\ paramComment[5][1] = <<NewComment(<<"s","i","g">>)>>
    /\ paramComment[6][1] = <<NewComment(<<"s","i","g">>)>>
    /\ paramComment[6][2] = <<NewComment(<<"d","y">>)>>

\* C8, as claimed: after onResolve, neither the declaration's comment nor a
\* signature's comment has a 'returns' tag, and where one was present its text is
\* held in that comment's returns field.
C8_ReturnsTagMoved ==
    [][\A r \in DeclIds : ResolveStep(r) =>
          \A x \in {r} \cup SignaturesOf(r) :
              /\ ~HasTagOpt(comment'[x], Str_returns)
              /\ HasTagOpt(comment[x], Str_returns) =>
                    ReturnsOf(comment'[x]) = GetTag(comment[x][1], Str_returns).text]_vars

\* C8, amended: after onResolve, neither the declaration's comment nor a signature's
\* comment has a 'returns' tag; the text of the declaration's tag is held in the
\* declaration's returns field, and the text of a signature's tag is held in the
\* signature's returns field when that text is not empty.
C8_ReturnsTagMovedNonEmpty ==
    [][\A r \in DeclIds : ResolveStep(r) =>
          /\ \A x \in {r} \cup SignaturesOf(r) : ~HasTagOpt(comment'[x], Str_returns)
          /\ HasTagOpt(comment[r], Str_returns) =>
                ReturnsOf(comment'[r]) = GetTag(comment[r][1], Str_returns).text
          /\ \A s \in SignaturesOf(r) :
                (HasTagOpt(comment[s], Str_returns)
                    /\ GetTag(comment[s][1], Str_returns).text # <<>>) =>
                    ReturnsOf(comment'[s]) = GetTag(comment[s][1], Str_returns).text]_vars

\* the 'returns' tags of the declaration ("S") and of a signature ("R") have moved
\* into the returns fields
C8_Witness ==
    /\ 4 \in resolved
    /\ ReturnsOf(comment[4]) = <<"S">>
    /\ ReturnsOf(comment[5]) = <<"R">>
    /\ \A x \in {4, 5, 6} : ~HasTagOpt(comment[x], Str_returns)

\* C9: after onResolve of a declaration that owns a signature, no 'param' tag is
\* left in the declaration's comment or in a signature's comment, matched or not.
C9_NoParamTagLeft ==
    \A r \in resolved :
        (IsDeclarationReflection(r) /\ Len(GetAllSignatures(r)) > 0) =>
            \A x \in {r} \cup SignaturesOf(r) : ~HasTagOpt(comment[x], Str_param)

\* the declaration's comment had 'param' tags for x and y (matched) and for z
\* (matched by nothing), a signature's had one for x
C9_Witness ==
    /\ 4 \in resolved
    /\ comment[4] # <<>>
    /\ comment[4][1].shortText = <<"d">>
    /\ comment[4][1].tags = <<>>
    /\ paramComment[6][2] = <<NewComment(<<"d","y">>)>>
    /\ paramComment[5][1] = <<NewComment(<<"s","i","g">>)>>

Modifiers == {<<Str_private, "Private">>, <<Str_protected, "Protected">>,
              <<Str_public, "Public">>}

\* the reflections whose comment or flags a step changes
Changed == {x \in Reflections : comment'[x] # comment[x] \/ flags'[x] # flags[x]}

\* the access modifiers of the comment parsed from raw for r have been applied
ModifiersApplied(r, raw) ==
    \A m \in Modifiers :
        HasTag(ParseComment(raw, comment[r]), m[1]) =>
            /\ m[2] \in flags'[r]
            /\ ~HasTagOpt(comment'[r], m[1])

\* C10, as claimed: after every hook that tokenizes a comment for a non-module
\* reflection (onDeclaration for a declaration or a signature, and
\* onFunctionImplementation), the reflection has the flag of every access modifier
\* tag that was in the parsed comment, and its comment has no tag of that name.
C10_ModifiersAppliedByEveryHook ==
    [][\A r \in DeclIds, raw \in DocComments :
          (/\ Changed \subseteq {r}
           /\ \/ OnDeclaration(r, raw)
              \/ Kind(r) = "Function" /\ OnFunctionImplementation(r, raw)) =>
              ModifiersApplied(r, raw)]_vars

\* C10, amended: after every onDeclaration call (declaration creation, signature
\* creation) that tokenizes a comment for a non-module reflection, the reflection has
\* the flag of every access modifier tag that was in the parsed comment, and its
\* comment has no tag of that name; onFunctionImplementation applies no modifier.
C10_ModifiersAppliedByOnDeclaration ==
    [][\A r \in DeclIds, raw \in DocComments :
          (Changed \subseteq {r} /\ OnDeclaration(r, raw)) => ModifiersApplied(r, raw)]_vars

\* a signature was created from a comment with two '@private' and one '@public':
\* both flags are set and no tag is left
C10_Witness ==
    /\ flags[5] = {"Private", "Public"}
    /\ comment[5] # <<>>
    /\ comment[5][1].tags = <<>>

----------------------------------------------------------------------------
(* applyAccessModifiers applied twice (checked under SpecHooks)              *)

\* C11: for every comment a reflection holds, with the reflection's flags,
\* applyAccessModifiers applied to the result of applyAccessModifiers changes neither
\* the comment (its tag sequence included) nor the flags: the second call is a no-op.
C11_ApplyAccessModifiersIdempotent ==
    \A r \in DeclIds :
        comment[r] # <<>> =>
            LET once  == ApplyAccessModifiers(flags[r], comment[r][1])
                twice == ApplyAccessModifiers(once.flags, once.comment)
            IN /\ twice.comment = once.comment
               /\ twice.flags = once.flags

\* the function's comment, set by onFunctionImplementation, holds two 'private' tags
\* and a 'public' tag that a first call has yet to remove
C11_Witness ==
    /\ comment[4] # <<>>
    /\ Len(comment[4][1].tags) = 3
    /\ comment[4][1].tags[1].tagName = Str_private
    /\ comment[4][1].tags[2].tagName = Str_private
    /\ comment[4][1].tags[3].tagName = Str_public
    /\ flags[4] = {}
    /\ ApplyAccessModifiers(flags[4], comment[4][1]).flags = {"Private", "Public"}
    /\ ApplyAccessModifiers(flags[4], comment[4][1]).comment.tags = <<>>

----------------------------------------------------------------------------
(* parseComment, line by line (checked under SpecParse)                      *)

\* the call has returned: forEach has visited every line
Returned == pending = <<>>

\* the lines of the call, gutter and trailing blanks removed (lines 324-325)
StrippedLines ==
    LET ls == LinesOf(source)
    IN [i \in 1..Len(ls) |-> StripGutter(ls[i])]

Str_A_dot     == <<"A", ".">>
Str_the_value == <<"t","h","e"," ","v","a","l","u","e">>
Str_done      == <<"d","o","n","e">>

\* C12, as claimed: parseComment on the four lines '/** A. ', ' * @param x the value',
\* ' * @returns done', ' */' yields shortText "A.", one 'param' tag with paramName "x"
\* and text "the value", and one 'returns' tag whose text is exactly "done".
C12_RoundTripExact ==
    (source = DocFull /\ into = <<>> /\ Returned) =>
        /\ parser.comment.shortText = Str_A_dot
        /\ parser.comment.tags = <<CommentTag(Str_param, Str_x, Str_the_value),
                                    CommentTag(Str_returns, <<>>, Str_done)>>

\* C12, amended: parseComment on those four lines yields shortText "A.", one 'param'
\* tag with paramName "x" and text "the value", and one 'returns' tag whose text is
\* "done" followed by a line break: the closing-marker line, blank once the marker is
\* removed, is appended to the open tag like any other line.
C12_RoundTripClosingLine ==
    (source = DocFull /\ into = <<>> /\ Returned) =>
        /\ parser.comment.shortText = Str_A_dot
        /\ parser.comment.text = <<>>
        /\ parser.comment.tags = <<CommentTag(Str_param, Str_x, Str_the_value),
                                    CommentTag(Str_returns, <<>>, Str_done \o <<"\n">>)>>

\* the call on the four lines has returned, with two tags
C12_Witness ==
    /\ source = DocFull
    /\ into = <<>>
    /\ Returned
    /\ Len(parser.comment.tags) = 2
    /\ parser.comment.tags[2].tagName = Str_returns

\* no line of the call is a tag line
TagFree == \A i \in 1..Len(StrippedLines) : ~IsTagLine(StrippedLines[i])

\* the lines of ls that are not blank, in order
NonBlank(ls) == SelectSeq(ls, LAMBDA l : l # <<>>)

\* ls without the blank lines it starts with
DropLeadingBlank(ls) ==
    SubSeq(ls, 1 + LeadingRun([i \in 1..Len(ls) |-> ls[i] = <<>>]), Len(ls))

\* the index of the first blank line that follows a line that is not blank, 0 when
\* there is none
BreakIndex(ls) ==
    LET IsBreak(i) == ls[i] = <<>> /\ \E j \in 1..(i - 1) : ls[j] # <<>>
    IN IF \E i \in 1..Len(ls) : IsBreak(i)
       THEN CHOOSE i \in 1..Len(ls) : IsBreak(i) /\ \A j \in 1..(i - 1) : ~IsBreak(j)
       ELSE 0

\* C13: parseComment of a text without a tag line into a fresh comment produces no
\* tag; when no blank line follows a line that is not blank, shortText is the
\* non-blank lines joined by line breaks and text is empty; otherwise shortText is
\* the non-blank lines before the first such blank line, joined by line breaks, and
\* text is the lines after it joined by line breaks, the blank lines it starts with
\* dropped.
C13_ShortTextAndText ==
    (Returned /\ into = <<>> /\ TagFree) =>
        LET ls == StrippedLines
            b  == BreakIndex(ls)
        IN /\ parser.comment.tags = <<>>
           /\ b = 0 =>
                 /\ parser.comment.shortText = NewlineJoin(NonBlank(ls))
                 /\ parser.comment.text = <<>>
           /\ b # 0 =>
                 /\ parser.comment.shortText = NewlineJoin(NonBlank(SubSeq(ls, 1, b - 1)))
                 /\ parser.comment.text =
                       NewlineJoin(DropLeadingBlank(SubSeq(ls, b + 1, Len(ls))))

\* a blank line, "a", a blank line, "b": the leading blank line is dropped, "a" is the
\* shortText and "b" the text
C13_Witness ==
    /\ Returned
    /\ into = <<>>
    /\ source = Compose(<<LineBlank, LineGutter, LineBlank, LinePlain>>)
    /\ parser.comment.shortText = <<"a">>
    /\ parser.comment.text = <<"b">>

\* the number of lines forEach has visited
Visited == Len(LinesOf(source)) - Len(pending)

\* forEach has visited a tag line in this call
SeenTagLine ==
    LET ls == StrippedLines
    IN \E i \in 1..Visited : IsTagLine(ls[i])

\* the tags of ts, the text of the last one followed by a line break and line
AppendedToLast(ts, line) ==
    [ts EXCEPT ![Len(ts)].text = ts[Len(ts)].text \o <<"\n">> \o line]

\* C18: within one call of parseComment, once a tag line has been visited, a line
\* that is not a tag line, blank or not, is appended behind a line break to the text
\* of the tag opened last and opens no tag, and no line changes the comment's
\* shortText or text any more.
C18_LinesAfterATagJoinIt ==
    [][(ParseLineStep /\ SeenTagLine) =>
          LET line == StripGutter(Head(pending))
          IN /\ parser'.comment.shortText = parser.comment.shortText
             /\ parser'.comment.text = parser.comment.text
             /\ ~IsTagLine(line) =>
                   parser'.comment.tags = AppendedToLast(parser.comment.tags, line)]_vars

\* a tag line, a blank line and a line of prose: both are in the tag's text, and the
\* comment has no shortText
C18_Witness ==
    /\ Returned
    /\ into = <<>>
    /\ source = Compose(<<LineReturn, LineBlank, LineGutter>>)
    /\ parser.comment.tags = <<CommentTag(Str_returns, <<>>, <<"r", "\n", "\n", "a">>)>>
    /\ parser.comment.shortText = <<>>
    /\ parser.comment.text = <<>>

\* the tags a call of parseComment on the text alone, into a new comment, produces:
\* one for each tag line, in the order of the lines
NewTags == ParseComment(source, <<>>).tags

\* the tagName of every tag line of the call, in the order of the lines
TagLineNames ==
    LET tagLines == SelectSeq(StrippedLines, IsTagLine)
    IN [i \in 1..Len(tagLines) |-> TagOfLine(tagLines[i]).tagName]

\* C19: when parseComment is given a comment, the tags the comment had before the
\* call are, at every line of the call, the first tags of the comment, unchanged and
\* in the same order; when the call returns they are followed by one tag for each tag
\* line, in the order of the lines: the tags the text alone produces.
C19_IntoCommentOnlyAppends ==
    into # <<>> =>
        LET before == into[1].tags
            after  == parser.comment.tags
        IN /\ Len(after) >= Len(before)
           /\ SubSeq(after, 1, Len(before)) = before
           /\ Returned =>
                 /\ after = before \o NewTags
                 /\ [i \in 1..Len(NewTags) |-> NewTags[i].tagName] = TagLineNames

\* the comment given had a 'param' and a 'returns' tag; the text has a 'returns' and a
\* 'param' tag line, which follow them in that order
C19_Witness ==
    /\ Returned
    /\ into = <<ParseComment(DocSig, <<>>)>>
    /\ source = Compose(<<LineReturn, LineParam>>)
    /\ Len(parser.comment.tags) = 4
    /\ parser.comment.tags[1] = CommentTag(Str_param, Str_x, <<"s","i","g">>)
    /\ parser.comment.tags[2] = CommentTag(Str_returns, <<>>, <<"S">>)
    /\ parser.comment.tags[3].tagName = Str_returns
    /\ parser.comment.tags[4].tagName = Str_param

----------------------------------------------------------------------------
(* The comments of type parameters (checked under SpecGeneric)               *)

\* the number of 'param' tags for the name in an optional comment
ParamTagCount(oc, name) ==
    IF oc = <<>> THEN 0
    ELSE Cardinality({i \in 1..Len(oc[1].tags) :
                         oc[1].tags[i].tagName = Str_param /\ oc[1].tags[i].paramName = name})

\* C14: when a type parameter is created and its parent's comment has a 'param' tag
\* of its name, the type parameter's comment is a new comment whose shortText is the
\* text of the first such tag, and that one tag is removed from the parent's tags:
\* the others keep their order, the parent's other fields are unchanged, and the
\* parent has one tag of that name less, so that a sibling of the same name created
\* later is not given that tag again; when there is no such tag (or no comment) the
\* parent's comment is unchanged and the type parameter gets no comment.
C14_TagConsumedOnce ==
    [][\A t \in TypeParamIds : OnCreateTypeParameter(t) =>
          LET p    == TypeParamParent(t)
              name == TypeParamName(t)
          IN IF ParamTagCount(comment[p], name) > 0
             THEN LET i == CHOOSE i \in 1..Len(comment[p][1].tags) :
                              /\ comment[p][1].tags[i].tagName = Str_param
                              /\ comment[p][1].tags[i].paramName = name
                              /\ \A j \in 1..(i - 1) :
                                    ~(/\ comment[p][1].tags[j].tagName = Str_param
                                      /\ comment[p][1].tags[j].paramName = name)
                  IN /\ comment'[t] = <<NewComment(comment[p][1].tags[i].text)>>
                     /\ comment'[p] # <<>>
                     /\ comment'[p][1].tags =
                           [k \in 1..(Len(comment[p][1].tags) - 1) |->
                               IF k < i THEN comment[p][1].tags[k]
                               ELSE comment[p][1].tags[k + 1]]
                     /\ comment'[p][1].shortText = comment[p][1].shortText
                     /\ comment'[p][1].text = comment[p][1].text
                     /\ ParamTagCount(comment'[p], name) = ParamTagCount(comment[p], name) - 1
             ELSE /\ comment'[p] = comment[p]
                  /\ comment'[t] = <<>>]_vars

\* the class comment had '@param x v' and '@param T the element type'; both type
\* parameters named T were created: the first has the text, the second has no
\* comment, and the parent keeps the tag for x alone
C14_Witness ==
    /\ {8, 10} \subseteq created
    /\ comment[ClassId] # <<>>
    /\ comment[ClassId][1].tags = <<CommentTag(Str_param, Str_x, <<"v">>)>>
    /\ \E t \in {8, 10} :
          /\ comment[t] = <<NewComment(<<"t","h","e"," ","e","l","e","m","e","n","t"," ",
                                        "t","y","p","e">>)>>
          /\ comment[18 - t] = <<>>

----------------------------------------------------------------------------
(* The deferred comments of modules (checked under SpecModule)               *)

\* C15: no onDeclaration call for a reflection of kind Module writes a comment or a
\* flag of any reflection (it changes the candidate table at most), so that a module
\* has no comment while the tree is built; a module's comment is assigned by
\* onBeginResolve only, and is then the parse of the fullText of the one candidate
\* retained for it, without any 'preferred' tag.
C15_ModuleCommentDeferred ==
    [][/\ \A id \in ModuleIds, raw \in ModuleComments \cup {NoText} :
             OnDeclaration(id, raw) => (comment' = comment /\ flags' = flags)
       /\ \A id \in ModuleIds :
             /\ phase' = "converting" => comment'[id] = <<>>
             /\ (comment'[id] # comment[id] /\ comment'[id] # <<>>) =>
                   /\ OnBeginResolve
                   /\ id \in DOMAIN comments
                   /\ comment'[id] =
                         <<[ParseComment(comments[id].fullText, <<>>) EXCEPT
                               !.tags = SelectSeq(@, LAMBDA tag : tag.tagName # Str_preferred)]>>
                   /\ ~HasTag(comment'[id][1], Str_preferred)]_vars

\* of "q / @Preferred" and a longer plain text recorded for a module, the first was
\* retained; at resolve-begin the module got its parse, shortText "q", without the tag
C15_Witness ==
    /\ phase = "resolving"
    /\ recorded[1] = <<ModPreferredUpper, ModLong>>
    /\ comments[1].fullText = ModPreferredUpper
    /\ comment[1] = <<NewComment(<<"q">>)>>
    /\ flags[1] = {}

----------------------------------------------------------------------------
(* onResolve: what it shares and what it leaves alone (checked under Spec)   *)

\* C16: when onResolve runs for a declaration whose comment has a 'param' tag for a
\* name, every parameter of that name of every one of its signatures whose own
\* comment has no 'param' tag of that name gets a comment built from the text of the
\* declaration's tag: the first signature does not consume the tag for the second.
C16_DeclarationTagServesEverySignature ==
    [][\A r \in DeclIds : ResolveStep(r) =>
          \A name \in {Str_x, Str_y} :
              (comment[r] # <<>> /\ ParamTagIndex(comment[r][1], name) # 0) =>
                  \A s \in SignaturesOf(r) : \A i \in 1..Len(Parameters(s)) :
                      (/\ Parameters(s)[i] = name
                       /\ comment[s] = <<>> \/ ParamTagIndex(comment[s][1], name) = 0) =>
                          paramComment'[s][i] =
                              <<NewComment(GetParamTag(comment[r][1], name).text)>>]_vars

\* the function's comment documents x ("dx"), neither signature has a comment: the
\* parameter x of both signatures has the declaration's text
C16_Witness ==
    /\ 4 \in resolved
    /\ paramComment[5][1] = <<NewComment(<<"d","x">>)>>
    /\ paramComment[6][1] = <<NewComment(<<"d","x">>)>>
    /\ paramComment[6][2] = <<NewComment(<<"d","y">>)>>
    /\ comment[5] = <<[NewComment(<<"d">>) EXCEPT !.text = <<"m","o","r","e">>,
                                                  !.returns = <<"R">>]>>
    /\ comment[6] = comment[5]

\* the shortText and the text of an optional comment, empty when there is none
ShortTextOf(oc) == IF oc = <<>> THEN <<>> ELSE oc[1].shortText

TextOf(oc) == IF oc = <<>> THEN <<>> ELSE oc[1].text

\* C17: when onResolve runs for a declaration, a shortText or a text that is not
\* empty on a signature's own comment is unchanged; a field that was empty takes the
\* declaration's value when the declaration has a comment and stays empty otherwise;
\* a signature without a comment gets one exactly when the declaration has one.
C17_SignatureProseKept ==
    [][\A r \in DeclIds : ResolveStep(r) =>
          \A s \in SignaturesOf(r) :
              /\ ShortTextOf(comment[s]) # <<>> =>
                    ShortTextOf(comment'[s]) = ShortTextOf(comment[s])
              /\ TextOf(comment[s]) # <<>> => TextOf(comment'[s]) = TextOf(comment[s])
              /\ ShortTextOf(comment[s]) = <<>> =>
                    ShortTextOf(comment'[s]) = ShortTextOf(comment[r])
              /\ TextOf(comment[s]) = <<>> => TextOf(comment'[s]) = TextOf(comment[r])
              /\ comment[s] = <<>> => (comment'[s] # <<>> <=> comment[r] # <<>>)
              /\ comment[s] # <<>> => comment'[s] # <<>>]_vars

\* the declaration has shortText "d" and text "more"; the first signature had its own
\* shortText "s" and no text, the second had no comment
C17_Witness ==
    /\ 4 \in resolved
    /\ ShortTextOf(comment[4]) = <<"d">>
    /\ ShortTextOf(comment[5]) = <<"s">>
    /\ TextOf(comment[5]) = <<"m","o","r","e">>
    /\ ShortTextOf(comment[6]) = <<"d">>
    /\ TextOf(comment[6]) = <<"m","o","r","e">>

\* C20: onResolve for a reflection that is not a declaration, or for a declaration
\* that owns no signature, changes no comment (tags and returns field included), no
\* parameter's comment and no flag.
C20_NothingWithoutSignatures ==
    [][\A r \in DeclIds :
          (OnResolve(r) /\ ~(IsDeclarationReflection(r) /\ Len(GetAllSignatures(r)) > 0)) =>
              /\ comment' = comment
              /\ paramComment' = paramComment
              /\ flags' = flags]_vars

\* onResolve has run for the variable, a declaration without signatures, and for a
\* signature, not a declaration: the 'param' and 'returns' tags of their comments are
\* where they were and the returns fields are empty
C20_Witness ==
    /\ {3, 5} \subseteq resolved
    /\ 4 \notin resolved
    /\ comment[3] # <<>>
    /\ Len(comment[3][1].tags) = 4
    /\ HasTag(comment[3][1], Str_returns)
    /\ HasTag(comment[3][1], Str_param)
    /\ comment[3][1].returns = <<>>
    /\ comment[5] # <<>>
    /\ comment[5][1].tags = <<CommentTag(Str_param, Str_x, <<"s","i","g">>),
                               CommentTag(Str_returns, <<>>, <<"S">>)>>
    /\ comment[5][1].returns = <<>>

====
